---- MODULE Spec2Model ----
(***************************************************************************)
(* A model of roll_dep.py: the main() pipeline (argument check, clean-tree *)
(* check, per-dependency resolution, message synthesis, setdep, finalize)  *)
(* as a state machine over the external commands it issues, and the        *)
(* message-formatting functions as operators over token sequences.         *)
(*                                                                         *)
(* Strings are modelled as sequences: a dependency path or a directory is  *)
(* a sequence of character codes (so that Python's string order is the     *)
(* lexicographic order of the sequences), a URL and a message are          *)
(* sequences of tokens.  A revision is a positive integer whose order      *)
(* stands for the string order of the hashes; 0 is the empty string.       *)
(***************************************************************************)
EXTENDS Integers, Sequences, FiniteSets, TLC

(***************************************************************************)
(* Bounds of the model.                                                    *)
(***************************************************************************)
MaxDeps == 2

(***************************************************************************)
(* Character codes used in dependency paths.                               *)
(***************************************************************************)
Slash == 47
Backslash == 92

\* "b/", "a\b", "aB": the raw dep_path arguments the model draws from.
RawPaths == { <<98, Slash>>, <<97, Backslash, 98>>, <<97, 66>> }

\* gclient root ("r") and the current directory ("r/s").
GclientRoot == <<114>>
CurrentDir == <<114, Slash, 115>>

\* Revisions a dependency can be pinned at or resolve to.
Revs == {1, 2}

DefaultRollTo == "origin/HEAD"

(***************************************************************************)
(* Python helpers.                                                         *)
(***************************************************************************)
RECURSIVE LexLess(_, _)
\* s < t for Python strings (and for tuples/lists of integers).
LexLess(s, t) ==
    IF t = <<>> THEN FALSE
    ELSE IF s = <<>> THEN TRUE
    ELSE IF Head(s) # Head(t) THEN Head(s) < Head(t)
    ELSE LexLess(Tail(s), Tail(t))

\* sorted(s), a stable sort; lt[a][b] tells whether s[a] < s[b].
SortedBy(s, lt) ==
    LET n == Len(s)
        rank(i) == Cardinality({ j \in 1..n :
                       \/ lt[j][i]
                       \/ (~lt[i][j] /\ j < i) }) + 1
    IN  [r \in 1..n |-> s[CHOOSE i \in 1..n : rank(i) = r]]

\* The order of the strings of s.
StrOrder(s) == [a \in 1..Len(s) |-> [b \in 1..Len(s) |-> LexLess(s[a], s[b])]]

RECURSIVE RStripSlash(_)
\* d.rstrip('/')
RStripSlash(d) ==
    IF d # <<>> /\ d[Len(d)] = Slash
    THEN RStripSlash(SubSeq(d, 1, Len(d) - 1))
    ELSE d

\* d.replace('\\', '/')
ReplaceBackslash(d) ==
    [i \in 1..Len(d) |-> IF d[i] = Backslash THEN Slash ELSE d[i]]

NormalizeDep(d) == RStripSlash(ReplaceBackslash(d))

\* Sorting the raw arguments and normalizing afterwards.
SortThenNormalize(dep_path) ==
    LET sorted == SortedBy(dep_path, StrOrder(dep_path))
    IN  [i \in 1..Len(sorted) |-> NormalizeDep(sorted[i])]

\* dependencies = sorted(d.replace('\\', '/').rstrip('/') for d in dep_path)
SortedDependencies(dep_path) ==
    LET normalized == [i \in 1..Len(dep_path) |-> NormalizeDep(dep_path[i])]
    IN  SortedBy(normalized, StrOrder(normalized))

\* os.path.normpath(os.path.join(base, dependency)), for a relative
\* dependency path without '.' or empty components.
FullDir(base, dependency) ==
    IF dependency = <<>> THEN base ELSE base \o <<Slash>> \o dependency

(***************************************************************************)
(* Message text.  A string is a sequence of tokens [t, n]: t is a piece of *)
(* text and n an integer it carries (a count, a hex digit, the number of a *)
(* log line), 0 when it carries none.                                      *)
(***************************************************************************)
MaxLines == 3
MaxLimit == 3

Tok(t) == [t |-> t, n |-> 0]
Num(n) == [t |-> "%d", n |-> n]
NL == Tok("\n")

None == [some |-> FALSE, v |-> <<>>]
Some(v) == [some |-> TRUE, v |-> v]
\* Python truth of an optional string or list.
Truthy(x) == x.some /\ x.v # <<>>

\* Two 13-character revisions.
OldRev == [p \in 1..13 |-> [t |-> "x", n |-> p]]
NewRev == [p \in 1..13 |-> [t |-> "x", n |-> (3 * p) % 16]]

\* s[:n] for n >= 0
Prefix(s, n) == SubSeq(s, 1, IF n < Len(s) THEN n ELSE Len(s))

\* s[start:] with Python's treatment of a negative start
SliceFrom(s, start) ==
    LET b == IF start < 0
             THEN (IF Len(s) + start < 0 THEN 0 ELSE Len(s) + start)
             ELSE (IF start > Len(s) THEN Len(s) ELSE start)
    IN  SubSeq(s, b + 1, Len(s))

StartsWith(s, p) == Len(s) >= Len(p) /\ SubSeq(s, 1, Len(p)) = p

EndsWith(s, p) ==
    Len(s) >= Len(p) /\ SubSeq(s, Len(s) - Len(p) + 1, Len(s)) = p

RECURSIVE Concat(_)
\* ''.join(parts)
Concat(parts) ==
    IF parts = <<>> THEN <<>> ELSE Head(parts) \o Concat(Tail(parts))

RECURSIVE Join(_, _)
\* sep.join(parts)
Join(sep, parts) ==
    IF parts = <<>> THEN <<>>
    ELSE IF Len(parts) = 1 THEN parts[1]
    ELSE parts[1] \o sep \o Join(sep, Tail(parts))

RECURSIVE SplitLinesKeep(_)
\* s.splitlines(True)
SplitLinesKeep(s) ==
    IF s = <<>> THEN <<>>
    ELSE IF \E n \in 1..Len(s) : s[n] = NL
    THEN LET n == CHOOSE n \in 1..Len(s) :
                      s[n] = NL /\ \A m \in 1..(n - 1) : s[m] # NL
         IN  <<SubSeq(s, 1, n)>> \o SplitLinesKeep(SubSeq(s, n + 1, Len(s)))
    ELSE <<s>>

RECURSIVE ReplaceAll(_, _, _)
\* s.replace(old, new), old not empty
ReplaceAll(s, old, new) ==
    IF Len(s) < Len(old) THEN s
    ELSE IF StartsWith(s, old)
    THEN new \o ReplaceAll(SubSeq(s, Len(old) + 1, Len(s)), old, new)
    ELSE <<Head(s)>> \o ReplaceAll(Tail(s), old, new)

RECURSIVE RStripTok(_, _)
\* s.rstrip(c) for a one-character c
RStripTok(s, c) ==
    IF s # <<>> /\ s[Len(s)] = c THEN RStripTok(SubSeq(s, 1, Len(s) - 1), c)
    ELSE s

(***************************************************************************)
(* Upstream URLs.                                                          *)
(***************************************************************************)
Url(ts) == [n \in 1..Len(ts) |-> Tok(ts[n])]

UrlV8 == Url(<<"https://", "chromium", ".googlesource.com", "/", "v8", "/", "v8", ".git">>)
UrlSrc == Url(<<"https://", "chromium", ".googlesource.com", "/", "chromium", "/", "src", ".git">>)
UrlWebrtc == Url(<<"https://", "webrtc", ".googlesource.com", "/", "src">>)
UrlGithub == Url(<<"https://", "github.com", "/", "foo", "/", "bar", ".git", "/">>)
UrlGithubSlashes == Url(<<"https://", "github.com", "/", "foo", "/", "baz", "/", "/">>)
UrlGithubWebrtc == Url(<<"https://", "github.com", "/", "webrtc", "/", "bar">>)
UrlOther == Url(<<"https://", "example.com", "/", "foo">>)

UpstreamUrls ==
    {UrlV8, UrlSrc, UrlWebrtc, UrlGithub, UrlGithubSlashes, UrlGithubWebrtc, UrlOther}

\* re.match(r'https://[^/]*\.googlesource\.com/', upstream_url)
MatchesGitiles(upstream_url) ==
    /\ upstream_url # <<>>
    /\ upstream_url[1] = Tok("https://")
    /\ \E n \in 2..(Len(upstream_url) - 1) :
           /\ \A m \in 2..(n - 1) : upstream_url[m] # Tok("/")
           /\ upstream_url[n] = Tok(".googlesource.com")
           /\ upstream_url[n + 1] = Tok("/")

GetLogUrlKeepsGit(upstream_url, head, tot) ==
    IF MatchesGitiles(upstream_url)
    THEN Some(upstream_url \o <<Tok("/+log/")>> \o Prefix(head, 12)
              \o <<Tok("..")>> \o Prefix(tot, 12))
    ELSE IF StartsWith(upstream_url, Url(<<"https://", "github.com", "/">>))
    THEN Some(RStripTok(upstream_url, Tok("/")) \o <<Tok("/compare/")>>
              \o Prefix(head, 12) \o <<Tok("...")>> \o Prefix(tot, 12))
    ELSE None

\* get_log_url(upstream_url, head, tot)
GetLogUrl(upstream_url, head, tot) ==
    IF MatchesGitiles(upstream_url)
    THEN Some(upstream_url \o <<Tok("/+log/")>> \o Prefix(head, 12)
              \o <<Tok("..")>> \o Prefix(tot, 12))
    ELSE IF StartsWith(upstream_url, Url(<<"https://", "github.com", "/">>))
    THEN LET stripped == RStripTok(upstream_url, Tok("/"))
             base == IF EndsWith(stripped, <<Tok(".git")>>)
                     THEN SubSeq(stripped, 1, Len(stripped) - 1)
                     ELSE stripped
         IN  Some(base \o <<Tok("/compare/")>> \o Prefix(head, 12)
                  \o <<Tok("...")>> \o Prefix(tot, 12))
    ELSE None

AlwaysShowLog(upstream_url) == TRUE

\* should_show_log(upstream_url)
ShouldShowLog(upstream_url) ==
    IF EndsWith(upstream_url, Url(<<"/", "v8", "/", "v8", ".git">>)) THEN FALSE
    ELSE IF \E n \in 1..Len(upstream_url) : upstream_url[n] = Tok("webrtc")
    THEN FALSE
    ELSE TRUE

(***************************************************************************)
(* generate_commit_message.                                                *)
(***************************************************************************)
\* A line of the git log output: a commit line, or one whose subject
\* matches _ROLL_SUBJECT.
LogLine(kind, n) == [t |-> kind, n |-> n]

\* cleaned_lines = [l for l in lines if not _ROLL_SUBJECT.match(l)]
CleanedLines(lines) == SelectSeq(lines, LAMBDA l : l.t # "rollline")

\* lines[:log_limit//2] + ['(...)\n'] + lines[-log_limit//2:]
TrimLines(lines, log_limit) ==
    Prefix(lines, log_limit \div 2) \o <<<<Tok("(...)"), NL>>>>
        \o SliceFrom(lines, (-log_limit) \div 2)

HeaderAlwaysPlural(dependency, head, roll_to, nb_commits, rolls) ==
    <<Tok("Roll ")>> \o dependency \o <<Tok("/ ")>>
        \o Prefix(head, 9) \o <<Tok("..")>> \o Prefix(roll_to, 9)
        \o <<Tok(" ("), Num(nb_commits), Tok(" commit"), Tok("s")>>
        \o (IF rolls # 0 THEN <<Tok("; "), Num(rolls), Tok(" trivial rolls")>>
            ELSE <<>>)
        \o <<Tok(")"), NL, NL>>

\* The header line and the blank line after it.
Header(dependency, head, roll_to, nb_commits, rolls) ==
    <<Tok("Roll ")>> \o dependency \o <<Tok("/ ")>>
        \o Prefix(head, 9) \o <<Tok("..")>> \o Prefix(roll_to, 9)
        \o <<Tok(" ("), Num(nb_commits), Tok(" commit")>>
        \o (IF nb_commits > 1 THEN <<Tok("s")>> ELSE <<>>)
        \o (IF rolls # 0 THEN <<Tok("; "), Num(rolls), Tok(" trivial rolls")>>
            ELSE <<>>)
        \o <<Tok(")"), NL, NL>>

\* generate_commit_message, given what 'git config remote.origin.url' and
\* 'git log' printed (the log lines after the author-domain rewrite).
GenerateCommitMessage(dependency, head, roll_to, no_log, log_limit, upstream_url, lines) ==
    LET commit_range == head \o <<Tok("..")>> \o roll_to
        commit_range_for_header ==
            Prefix(head, 9) \o <<Tok("..")>> \o Prefix(roll_to, 9)
        log_url == GetLogUrl(upstream_url, head, roll_to)
        cmd == <<Tok("git"), Tok(" "), Tok("log"), Tok(" ")>> \o commit_range
                   \o <<Tok(" "), Tok("--date=short"), Tok(" "), Tok("--no-merges")>>
        cleaned_lines == CleanedLines(lines)
        logs == Join(<<NL>>, [n \in 1..Len(cleaned_lines) |-> <<cleaned_lines[n]>>])
                    \o <<NL>>
        nb_commits == Len(lines)
        rolls == nb_commits - Len(cleaned_lines)
        header == Header(dependency, head, roll_to, nb_commits, rolls)
        section0 == (IF Truthy(log_url) THEN log_url.v \o <<NL, NL>> ELSE <<>>)
                        \o <<Tok("$ ")>> \o cmd \o <<Tok(" ")>>
                        \o <<Tok("--format='%ad %ae %s'"), NL>>
        log_section == ReplaceAll(section0, commit_range, commit_range_for_header)
        shown == IF Len(cleaned_lines) > log_limit
                 THEN Concat(TrimLines(SplitLinesKeep(logs), log_limit))
                 ELSE logs
    IN  IF ~no_log /\ ShouldShowLog(upstream_url)
        THEN header \o log_section \o shown
        ELSE header \o log_section

(***************************************************************************)
(* gen_commit_msg.                                                         *)
(***************************************************************************)
AlwaysReviewerTrailer(reviewers) ==
    <<Tok("R=")>> \o Join(<<Tok(",")>>, reviewers.v) \o <<NL>>

\* 'R=%s\n' % ','.join(reviewers) if reviewers else ''
ReviewerTrailer(reviewers) ==
    IF Truthy(reviewers)
    THEN <<Tok("R=")>> \o Join(<<Tok(",")>>, reviewers.v) \o <<NL>>
    ELSE <<>>

\* '\nBug: %s\n' % bug if bug else ''
BugTrailer(bug) ==
    IF Truthy(bug) THEN <<NL, Tok("Bug: ")>> \o bug.v \o <<NL>> ELSE <<>>

\* gen_commit_msg(logs, cmdline, reviewers, bug)
GenCommitMsg(msgs, cmd_line, reviewers, bug) ==
    (IF Len(msgs) > 1
     THEN <<Tok("Rolling "), Num(Len(msgs)), Tok(" dependencies"), NL, NL>>
     ELSE <<>>)
        \o Join(<<NL, NL>>, msgs)
        \o <<NL, Tok("Created with:"), NL, Tok("  ")>> \o cmd_line \o <<NL>>
        \o ReviewerTrailer(reviewers)
        \o BugTrailer(bug)

(***************************************************************************)
(* The reviewer list built by main() from the -r/--reviewer values.        *)
(***************************************************************************)
MaxReviewerArgs == 2

RECURSIVE SplitOn(_, _)
\* s.split(c) for a one-character c
SplitOn(s, c) ==
    IF \E n \in 1..Len(s) : s[n] = c
    THEN LET n == CHOOSE n \in 1..Len(s) :
                      s[n] = c /\ \A m \in 1..(n - 1) : s[m] # c
         IN  <<SubSeq(s, 1, n - 1)>> \o SplitOn(SubSeq(s, n + 1, Len(s)), c)
    ELSE <<s>>

AlwaysWithDefaultDomain(r) == r \o <<Tok("@chromium.org")>>

\* if not '@' in r: reviewers[i] = r + '@chromium.org'
WithDefaultDomain(r) ==
    IF \E n \in 1..Len(r) : r[n] = Tok("@") THEN r
    ELSE r \o <<Tok("@chromium.org")>>

\* reviewers = list(itertools.chain(*[r.split(',') for r in args.reviewer])),
\* then the default domain; None when no -r was given.
ParseReviewers(reviewer) ==
    IF Truthy(reviewer)
    THEN LET split == Concat([n \in 1..Len(reviewer.v) |->
                                  SplitOn(reviewer.v[n], Tok(","))])
         IN  Some([n \in 1..Len(split) |-> WithDefaultDomain(split[n])])
    ELSE None

\* The -r values the model draws from: "joe", "jane@example.com",
\* "joe,jane@example.com", "joe," and "".
ReviewerValues ==
    { <<Tok("joe")>>,
      <<Tok("jane"), Tok("@"), Tok("example.com")>>,
      <<Tok("joe"), Tok(","), Tok("jane"), Tok("@"), Tok("example.com")>>,
      <<Tok("joe"), Tok(",")>>,
      <<>> }

\* args.reviewer: None, or the list of the -r values in order.
ReviewerArgs ==
    {None} \cup
    { Some(l) : l \in UNION { [1..n -> ReviewerValues] : n \in 1..MaxReviewerArgs } }

(***************************************************************************)
(* TryserverApi (recipes/recipe_modules/tryserver/api.py): the cached      *)
(* Gerrit change info.                                                     *)
(***************************************************************************)
MaxReads == 4
MaxChanges == 2

VARIABLES
    t_pc,                  \* "idle"; "new" after __init__, "ready" after initialize
    t_changes,             \* buildbucket.build.input.gerrit_changes
    t_gerrit_change,       \* self._gerrit_change
    t_gerrit_change_info,  \* self._gerrit_change_info
    t_steps,               \* the names of the steps issued, in order
    t_reads                \* the reads of gerrit_change_info, in order

tryVars == <<t_pc, t_changes, t_gerrit_change, t_gerrit_change_info, t_steps,
             t_reads>>

\* The change infos the Gerrit server may answer with.
ChangeInfos == {1, 2}

\* What the step 'fetch current CL info' can do: fail (InfraFailure), or
\* give the list get_changes returns, which may be empty.
FetchOutcomes ==
    {[kind |-> "InfraFailure", v |-> 0], [kind |-> "empty", v |-> 0]}
        \cup { [kind |-> "ok", v |-> v] : v \in ChangeInfos }

AlwaysFetches(cl, info) == cl.some

\* if cl and self._gerrit_change_info is None:
NeedsFetch(cl, info) == cl.some /\ ~info.some

TryIdle ==
    /\ t_pc = "idle"
    /\ t_changes = <<>>
    /\ t_gerrit_change = None
    /\ t_gerrit_change_info = None
    /\ t_steps = <<>>
    /\ t_reads = <<>>

\* TryserverApi.__init__
InitTry ==
    /\ t_pc = "new"
    /\ t_changes \in { [n \in 1..len |-> 100 + n] : len \in 0..MaxChanges }
    /\ t_gerrit_change = None
    /\ t_gerrit_change_info = None
    /\ t_steps = <<>>
    /\ t_reads = <<>>


(***************************************************************************)
(* The message functions applied to drawn inputs.                          *)
(***************************************************************************)
VARIABLES
    m_pc,     \* "idle", "generate", "compose", "composed"; "args", "parsed"
    m_in,     \* arguments and command outputs of generate_commit_message
    m_log,    \* what generate_commit_message returned
    m_tr,     \* the logs count, reviewers and bug given to gen_commit_msg,
              \* and the -r values the reviewers were built from
    m_final   \* what gen_commit_msg returned

msgVars == <<m_pc, m_in, m_log, m_tr, m_final>>

LogLines ==
    UNION { { [n \in 1..len |-> LogLine(kinds[n], n)] :
                kinds \in [1..len -> {"line", "rollline"}] } :
            len \in 0..MaxLines }

NoInput == [upstream_url |-> <<>>, lines |-> <<>>, no_log |-> FALSE, log_limit |-> 0]
NoTrailers == [nlogs |-> 0, reviewers |-> None, bug |-> None, raw |-> None]

MsgIdle ==
    /\ m_pc = "idle"
    /\ m_in = NoInput
    /\ m_log = <<>>
    /\ m_tr = NoTrailers
    /\ m_final = <<>>

InitMsg ==
    /\ m_pc = "generate"
    /\ m_in \in [upstream_url : UpstreamUrls,
                 lines : LogLines,
                 no_log : BOOLEAN,
                 log_limit : 0..MaxLimit]
    /\ m_log = <<>>
    /\ m_tr = NoTrailers
    /\ m_final = <<>>

(***************************************************************************)
(* State of one run of main().                                             *)
(***************************************************************************)
VARIABLES
    args,          \* the parsed command line
    pc,            \* position in main()
    exit,          \* the process exit code, -1 while running
    err,           \* what ended the run
    cmds,          \* the external commands issued so far, with their outcome
    dependencies,  \* sorted normalized dependency paths
    cmdline,       \* the 'Created with' command line
    pristine,      \* what is_pristine reported
    i,             \* index of the resolve loop
    cur,           \* the dependency being resolved and its directory
    cr,            \* what calculate_roll gave its caller
    rolls,         \* the rolls dict, in insertion order
    decided,       \* the (dependency, head, roll_to) the loop has compared
    items,         \* sorted(rolls.items())
    j,             \* index of the message loop
    logs,          \* per-dependency messages
    setdep_args,   \* arguments of gclient setdep
    commit_msg,    \* the commit message handed to finalize
    vals,          \* sorted(rolls.values())
    k,             \* index of the checkout loop
    tmpfile,       \* the temporary commit-message file
    envDir,        \* where each dependency's directory is, once looked at
    envHead,       \* each dependency's pinned revision, once looked at
    envTot,        \* what the target resolves to, once looked at
    envSub         \* whether the gclient root has .gitmodules, once looked at

mainVars == <<args, pc, exit, err, cmds, dependencies, cmdline, pristine, i,
              cur, cr, rolls, decided, items, j, logs, setdep_args,
              commit_msg, vals, k, tmpfile, envDir, envHead, envTot, envSub>>

vars == <<mainVars, msgVars, tryVars>>

AllDeps == { NormalizeDep(p) : p \in RawPaths }

Cmd(c, dir, rev, a, ok) == [c |-> c, dir |-> dir, rev |-> rev, args |-> a, ok |-> ok]

\* subprocess2.check_call / check_output raise CalledProcessError on a
\* non-zero exit status.
Raises(ok) == ~ok

NoResult == [kind |-> "none", head |-> 0, roll_to |-> 0, cmds |-> <<>>, seen |-> {}]

\* The command lines the model draws from; roll_to is "" when --roll-to is
\* not given.
CommandLines ==
    [dep_path : UNION { [1..n -> RawPaths] : n \in 1..MaxDeps },
     ignore_dirty_tree : BOOLEAN,
     roll_to : {"", DefaultRollTo, "deadbeef"},
     key : {<<>>, <<"k">>}]

\* args = parser.parse_args(): --roll-to has the default 'origin/HEAD'.
\* roll_to_given records whether the option was on the command line; the
\* program cannot read it.
ParsedArgs(argv) ==
    [dep_path |-> argv.dep_path,
     ignore_dirty_tree |-> argv.ignore_dirty_tree,
     roll_to |-> IF argv.roll_to = "" THEN DefaultRollTo ELSE argv.roll_to,
     roll_to_given |-> argv.roll_to # "",
     key |-> argv.key]

InitMain ==
    /\ args \in { ParsedArgs(argv) : argv \in CommandLines }
    /\ pc = "parse"
    /\ exit = -1
    /\ err = "none"
    /\ cmds = <<>>
    /\ dependencies = <<>>
    /\ cmdline = [paths |-> <<>>, keys |-> <<>>]
    /\ pristine = "unknown"
    /\ i = 1
    /\ cur = [dep |-> <<>>, full_dir |-> <<>>]
    /\ cr = NoResult
    /\ rolls = <<>>
    /\ decided = <<>>
    /\ items = <<>>
    /\ j = 1
    /\ logs = <<>>
    /\ setdep_args = <<>>
    /\ commit_msg = [logs |-> <<>>, cmdline |-> [paths |-> <<>>, keys |-> <<>>]]
    /\ vals = <<>>
    /\ k = 1
    /\ tmpfile = "none"
    /\ envDir = [d \in AllDeps |-> "?"]
    /\ envHead = [d \in AllDeps |-> -1]
    /\ envTot = [d \in AllDeps |-> -1]
    /\ envSub = "?"

\* The run ends with exit code `code`.
Stop(code, e) == pc' = "done" /\ exit' = code /\ err' = e

(***************************************************************************)
(* main(): argument checks.                                                *)
(***************************************************************************)
\* parser.error() prints the usage and exits with status 2 (argparse).
ParserErrorExit == 2

AcceptsAll(dep_path, roll_to, key) == FALSE

IgnoresKey(dep_path, roll_to, key) ==
    Len(dep_path) > 1 /\ roll_to # DefaultRollTo

ArgsRejected(dep_path, roll_to, key) ==
    Len(dep_path) > 1 /\ (roll_to # DefaultRollTo \/ key # <<>>)

ParseArgs ==
    /\ pc = "parse"
    /\ IF ArgsRejected(args.dep_path, args.roll_to, args.key)
       THEN Stop(ParserErrorExit, "usage")
       ELSE pc' = "root" /\ UNCHANGED <<exit, err>>
    /\ UNCHANGED <<msgVars, tryVars, args, cmds, dependencies, cmdline, pristine, i, cur, cr,
                   rolls, decided, items, j, logs, setdep_args, commit_msg,
                   vals, k, tmpfile, envDir, envHead, envTot, envSub>>

\* gclient_root = gclient(['root']) is outside the try block: a failure is
\* an uncaught CalledProcessError (traceback, exit status 1).
GclientRootStep ==
    /\ pc = "root"
    /\ \E ok \in BOOLEAN :
         /\ cmds' = Append(cmds, Cmd("gclient root", <<>>, 0, <<>>, ok))
         /\ IF Raises(ok)
            THEN /\ Stop(1, "uncaught CalledProcessError")
                 /\ UNCHANGED <<dependencies, cmdline>>
            ELSE /\ dependencies' = SortedDependencies(args.dep_path)
                 /\ cmdline' = [paths |-> SortedDependencies(args.dep_path),
                                keys |-> args.key]
                 /\ pc' = "clean"
                 /\ UNCHANGED <<exit, err>>
    /\ UNCHANGED <<msgVars, tryVars, args, pristine, i, cur, cr, rolls, decided, items, j, logs,
                   setdep_args, commit_msg, vals, k, tmpfile, envDir, envHead,
                   envTot, envSub>>

(***************************************************************************)
(* is_pristine and the dirty-tree check.                                   *)
(***************************************************************************)
DiffOutcomes == {"fail", "empty", "diff"}

\* is_pristine(root): the second diff runs only when the first is empty.
IsPristine(o1, o2) ==
    LET c1 == Cmd("git diff", CurrentDir, 0, <<>>, o1 # "fail")
        c2 == Cmd("git diff --cached", CurrentDir, 0, <<>>, o2 # "fail")
    IN  IF Raises(o1 # "fail") THEN [cmds |-> <<c1>>, res |-> "raise"]
        ELSE IF o1 = "diff" THEN [cmds |-> <<c1>>, res |-> "dirty"]
        ELSE IF Raises(o2 # "fail") THEN [cmds |-> <<c1, c2>>, res |-> "raise"]
        ELSE IF o2 = "diff" THEN [cmds |-> <<c1, c2>>, res |-> "dirty"]
        ELSE [cmds |-> <<c1, c2>>, res |-> "clean"]

NeverFailsDirty(ignore_dirty_tree, is_pristine) == FALSE

\* if not args.ignore_dirty_tree and not is_pristine(current_dir): raise Error
DirtyTreeFails(ignore_dirty_tree, is_pristine) ==
    ~ignore_dirty_tree /\ ~is_pristine

CheckClean ==
    /\ pc = "clean"
    /\ IF args.ignore_dirty_tree
       THEN /\ pc' = "resolve"
            /\ UNCHANGED <<exit, err, cmds, pristine>>
       ELSE \E o1 \in DiffOutcomes, o2 \in DiffOutcomes :
              LET r == IsPristine(o1, o2) IN
              /\ cmds' = cmds \o r.cmds
              /\ IF r.res = "raise"
                 THEN Stop(1, "CalledProcessError") /\ UNCHANGED pristine
                 ELSE /\ pristine' = r.res
                      /\ IF DirtyTreeFails(args.ignore_dirty_tree, r.res = "clean")
                         THEN Stop(1, "Error: dirty tree")
                         ELSE pc' = "resolve" /\ UNCHANGED <<exit, err>>
    /\ UNCHANGED <<msgVars, tryVars, args, dependencies, cmdline, i, cur, cr, rolls, decided,
                   items, j, logs, setdep_args, commit_msg, vals, k, tmpfile,
                   envDir, envHead, envTot, envSub>>

(***************************************************************************)
(* The resolve loop of main() and calculate_roll.                          *)
(***************************************************************************)
DirOutcomes == {"root", "cwd", "none"}

\* full_dir: under the gclient root, else under the current directory.
ResolveFullDir(dependency, where) ==
    FullDir(IF where = "root" THEN GclientRoot ELSE CurrentDir, dependency)

FindDir ==
    /\ pc = "resolve"
    /\ i <= Len(dependencies)
    /\ LET dependency == dependencies[i] IN
       \E where \in (IF envDir[dependency] = "?" THEN DirOutcomes
                     ELSE {envDir[dependency]}) :
         /\ envDir' = [envDir EXCEPT ![dependency] = where]
         /\ IF where = "none"
            THEN Stop(1, "Error: directory not found") /\ UNCHANGED cur
            ELSE /\ cur' = [dep |-> dependency,
                            full_dir |-> ResolveFullDir(dependency, where)]
                 /\ pc' = "calc"
                 /\ UNCHANGED <<exit, err>>
    /\ UNCHANGED <<msgVars, tryVars, args, cmds, dependencies, cmdline, pristine, i, cr, rolls,
                   decided, items, j, logs, setdep_args, commit_msg, vals, k,
                   tmpfile, envHead, envTot, envSub>>

\* What the outside world answers to calculate_roll's commands: which
\* command fails first (if any), the layout, and the two revisions.
CalcOutcomes(dependency) ==
    [fail : {"none", "root", "getdep", "fetch", "set-head", "rev-parse"},
     sub : IF envSub = "?" THEN BOOLEAN ELSE {envSub = "yes"},
     head : IF envHead[dependency] = -1 THEN {0} \cup Revs
            ELSE {envHead[dependency]},
     tot : IF envTot[dependency] = -1 THEN Revs ELSE {envTot[dependency]}]

AlwaysRefreshesHead(roll_to) == TRUE

\* if roll_to == 'origin/HEAD':
RefreshesHead(roll_to) == roll_to = DefaultRollTo

CalcResult(c, kind, head, roll_to, seen) ==
    [cmds |-> c, kind |-> kind, head |-> head, roll_to |-> roll_to, seen |-> seen]

\* calculate_roll(full_dir, dependency, roll_to).  In the submodule layout
\* the call get_submodule_rev(submodule_path) names a variable that is not
\* defined in calculate_roll: a NameError, before any git command.
CalculateRollOf(full_dir, dependency, roll_to, o) ==
    LET c0 == <<Cmd("gclient root", <<>>, 0, <<>>, (o.fail # "root"))>>
        c1 == c0 \o <<Cmd("gclient getdep", dependency, 0, <<>>, (o.fail # "getdep"))>>
        c2 == c1 \o <<Cmd("git fetch", full_dir, 0, <<>>, (o.fail # "fetch"))>>
        c3 == IF RefreshesHead(roll_to)
              THEN c2 \o <<Cmd("git remote set-head", full_dir, 0, <<>>, (o.fail # "set-head"))>>
              ELSE c2
        c4 == c3 \o <<Cmd("git rev-parse", full_dir, 0, <<>>, (o.fail # "rev-parse"))>>
    IN  IF Raises((o.fail # "root"))
        THEN CalcResult(c0, "CalledProcessError", 0, 0, {})
        ELSE IF o.sub
        THEN CalcResult(c0, "NameError", 0, 0, {"sub"})
        ELSE IF Raises((o.fail # "getdep"))
        THEN CalcResult(c1, "CalledProcessError", 0, 0, {"sub"})
        ELSE IF o.head = 0
        THEN CalcResult(c1, "Error", 0, 0, {"sub", "head"})
        ELSE IF Raises((o.fail # "fetch"))
        THEN CalcResult(c2, "CalledProcessError", 0, 0, {"sub", "head"})
        ELSE IF RefreshesHead(roll_to) /\ Raises((o.fail # "set-head"))
        THEN CalcResult(c3, "CalledProcessError", 0, 0, {"sub", "head"})
        ELSE IF Raises((o.fail # "rev-parse"))
        THEN CalcResult(c4, "CalledProcessError", 0, 0, {"sub", "head"})
        ELSE CalcResult(c4, "pair", o.head, o.tot, {"sub", "head", "tot"})

CalculateRoll ==
    /\ pc = "calc"
    /\ \E o \in CalcOutcomes(cur.dep) :
         LET r == CalculateRollOf(cur.full_dir, cur.dep, args.roll_to, o) IN
         /\ cr' = r
         /\ cmds' = cmds \o r.cmds
         /\ envSub' = IF "sub" \in r.seen
                      THEN (IF o.sub THEN "yes" ELSE "no") ELSE envSub
         /\ envHead' = IF "head" \in r.seen
                       THEN [envHead EXCEPT ![cur.dep] = o.head] ELSE envHead
         /\ envTot' = IF "tot" \in r.seen
                      THEN [envTot EXCEPT ![cur.dep] = o.tot] ELSE envTot
         /\ CASE r.kind = "pair" -> pc' = "decide" /\ UNCHANGED <<exit, err>>
              [] r.kind = "Error" -> Stop(1, "Error: unpinned")
              [] r.kind = "CalledProcessError" -> Stop(1, "CalledProcessError")
              [] r.kind = "NameError" -> Stop(1, "uncaught NameError")
    /\ UNCHANGED <<msgVars, tryVars, args, dependencies, cmdline, pristine, i, cur, rolls,
                   decided, items, j, logs, setdep_args, commit_msg, vals, k,
                   tmpfile, envDir>>

\* rolls[dependency] = value: a dict keeps the position of an existing key.
DictSet(d, e) ==
    IF \E n \in 1..Len(d) : d[n].dep = e.dep
    THEN [n \in 1..Len(d) |-> IF d[n].dep = e.dep THEN e ELSE d[n]]
    ELSE Append(d, e)

AlwaysFatal(deps) == TRUE

\* if len(dependencies) == 1: raise AlreadyRolledError
AlreadyRolledIsFatal(deps) == Len(deps) = 1

RecordRoll ==
    /\ pc = "decide"
    /\ decided' = Append(decided, [dep |-> cur.dep, head |-> cr.head,
                                   roll_to |-> cr.roll_to])
    /\ IF cr.roll_to = cr.head
       THEN IF AlreadyRolledIsFatal(dependencies)
            THEN Stop(2, "AlreadyRolledError") /\ UNCHANGED <<i, rolls>>
            ELSE /\ pc' = "resolve"
                 /\ i' = i + 1
                 /\ UNCHANGED <<exit, err, rolls>>
       ELSE /\ rolls' = DictSet(rolls, [dep |-> cur.dep, head |-> cr.head,
                                        roll_to |-> cr.roll_to,
                                        full_dir |-> cur.full_dir])
            /\ pc' = "resolve"
            /\ i' = i + 1
            /\ UNCHANGED <<exit, err>>
    /\ UNCHANGED <<msgVars, tryVars, args, cmds, dependencies, cmdline, pristine, cur, cr, items,
                   j, logs, setdep_args, commit_msg, vals, k, tmpfile, envDir,
                   envHead, envTot, envSub>>

\* Order of the tuples (head, roll_to, full_dir).
ValueLess(a, b) ==
    \/ a.head < b.head
    \/ a.head = b.head /\ a.roll_to < b.roll_to
    \/ a.head = b.head /\ a.roll_to = b.roll_to /\ LexLess(a.full_dir, b.full_dir)

\* Order of the tuples (dependency, (head, roll_to, full_dir)).
ItemLess(a, b) ==
    \/ LexLess(a.dep, b.dep)
    \/ a.dep = b.dep /\ ValueLess(a, b)

\* sorted(rolls.items())
SortedItems(d) ==
    SortedBy(d, [a \in 1..Len(d) |-> [b \in 1..Len(d) |-> ItemLess(d[a], d[b])]])

\* sorted(rolls.values())
SortedValues(d) ==
    SortedBy(d, [a \in 1..Len(d) |-> [b \in 1..Len(d) |-> ValueLess(d[a], d[b])]])

ResolveLoopDoneEarly(n, deps) == n > 1

\* for dependency in dependencies: the loop has gone through every entry.
ResolveLoopDone(n, deps) == n > Len(deps)

EndResolve ==
    /\ pc = "resolve"
    /\ ResolveLoopDone(i, dependencies)
    /\ items' = SortedItems(rolls)
    /\ j' = 1
    /\ pc' = "synth"
    /\ UNCHANGED <<msgVars, tryVars, args, exit, err, cmds, dependencies, cmdline, pristine, i,
                   cur, cr, rolls, decided, logs, setdep_args, commit_msg,
                   vals, k, tmpfile, envDir, envHead, envTot, envSub>>

(***************************************************************************)
(* The message loop, gclient setdep and finalize().                        *)
(***************************************************************************)
\* One iteration of the loop over sorted(rolls.items()): the commands of
\* generate_commit_message, then logs.append and setdep_args.extend.
Synthesize ==
    /\ pc = "synth"
    /\ j <= Len(items)
    /\ \E okConfig \in BOOLEAN, okLog \in BOOLEAN :
         LET it == items[j]
             c1 == Cmd("git config", it.full_dir, 0, <<>>, okConfig)
             c2 == Cmd("git log", it.full_dir, 0, <<>>, okLog)
         IN  IF Raises(okConfig)
             THEN /\ cmds' = Append(cmds, c1)
                  /\ Stop(1, "CalledProcessError")
                  /\ UNCHANGED <<j, logs, setdep_args>>
             ELSE IF Raises(okLog)
             THEN /\ cmds' = cmds \o <<c1, c2>>
                  /\ Stop(1, "CalledProcessError")
                  /\ UNCHANGED <<j, logs, setdep_args>>
             ELSE /\ cmds' = cmds \o <<c1, c2>>
                  /\ logs' = Append(logs, [dep |-> it.dep, head |-> it.head,
                                           roll_to |-> it.roll_to])
                  /\ setdep_args' = Append(setdep_args,
                                           [dep |-> it.dep, rev |-> it.roll_to])
                  /\ j' = j + 1
                  /\ UNCHANGED <<pc, exit, err>>
    /\ UNCHANGED <<msgVars, tryVars, args, dependencies, cmdline, pristine, i, cur, cr, rolls,
                   decided, items, commit_msg, vals, k, tmpfile, envDir,
                   envHead, envTot, envSub>>

EndSynth ==
    /\ pc = "synth"
    /\ j > Len(items)
    /\ pc' = "setdep"
    /\ UNCHANGED <<msgVars, tryVars, args, exit, err, cmds, dependencies, cmdline, pristine, i,
                   cur, cr, rolls, decided, items, j, logs, setdep_args,
                   commit_msg, vals, k, tmpfile, envDir, envHead, envTot,
                   envSub>>

\* gclient(['setdep'] + setdep_args), gen_commit_msg, and the entry of
\* finalize() up to the checkout loop.
SetDep ==
    /\ pc = "setdep"
    /\ \E ok \in BOOLEAN :
         /\ cmds' = Append(cmds, Cmd("gclient setdep", <<>>, 0, setdep_args, ok))
         /\ IF Raises(ok)
            THEN /\ Stop(1, "CalledProcessError")
                 /\ UNCHANGED <<commit_msg, vals, k>>
            ELSE /\ commit_msg' = [logs |-> logs, cmdline |-> cmdline]
                 /\ vals' = SortedValues(rolls)
                 /\ k' = 1
                 /\ pc' = "checkout"
                 /\ UNCHANGED <<exit, err>>
    /\ UNCHANGED <<msgVars, tryVars, args, dependencies, cmdline, pristine, i, cur, cr, rolls,
                   decided, items, j, logs, setdep_args, tmpfile, envDir,
                   envHead, envTot, envSub>>

CheckoutContinues(ok) == FALSE

\* A failed checkout raises out of the loop of finalize().
CheckoutAborts(ok) == Raises(ok)

\* check_call(['git', 'checkout', '--quiet', roll_to], cwd=full_dir)
Checkout ==
    /\ pc = "checkout"
    /\ k <= Len(vals)
    /\ \E ok \in BOOLEAN :
         /\ cmds' = Append(cmds, Cmd("git checkout", vals[k].full_dir,
                                     vals[k].roll_to, <<>>, ok))
         /\ IF CheckoutAborts(ok)
            THEN Stop(1, "CalledProcessError") /\ UNCHANGED k
            ELSE k' = k + 1 /\ UNCHANGED <<pc, exit, err>>
    /\ UNCHANGED <<msgVars, tryVars, args, dependencies, cmdline, pristine, i, cur, cr, rolls,
                   decided, items, j, logs, setdep_args, commit_msg, vals,
                   tmpfile, envDir, envHead, envTot, envSub>>

EndCheckout ==
    /\ pc = "checkout"
    /\ k > Len(vals)
    /\ pc' = "add"
    /\ UNCHANGED <<msgVars, tryVars, args, exit, err, cmds, dependencies, cmdline, pristine, i,
                   cur, cr, rolls, decided, items, j, logs, setdep_args,
                   commit_msg, vals, k, tmpfile, envDir, envHead, envTot,
                   envSub>>

\* check_call(['git', 'add', 'DEPS'], cwd=current_dir)
GitAdd ==
    /\ pc = "add"
    /\ \E ok \in BOOLEAN :
         /\ cmds' = Append(cmds, Cmd("git add", CurrentDir, 0, <<>>, ok))
         /\ IF Raises(ok)
            THEN Stop(1, "CalledProcessError")
            ELSE pc' = "tmp" /\ UNCHANGED <<exit, err>>
    /\ UNCHANGED <<msgVars, tryVars, args, dependencies, cmdline, pristine, i, cur, cr, rolls,
                   decided, items, j, logs, setdep_args, commit_msg, vals, k,
                   tmpfile, envDir, envHead, envTot, envSub>>

\* with tempfile.NamedTemporaryFile(..., delete=False) as f: f.write(...)
WriteTmp ==
    /\ pc = "tmp"
    /\ tmpfile' = "exists"
    /\ pc' = "commit"
    /\ UNCHANGED <<msgVars, tryVars, args, exit, err, cmds, dependencies, cmdline, pristine, i,
                   cur, cr, rolls, decided, items, j, logs, setdep_args,
                   commit_msg, vals, k, envDir, envHead, envTot, envSub>>

\* git commit --file, os.remove(commit_filename), and the return 0 of main().
\* When the commit fails the exception leaves finalize() before os.remove.
Commit ==
    /\ pc = "commit"
    /\ \E ok \in BOOLEAN :
         /\ cmds' = Append(cmds, Cmd("git commit", CurrentDir, 0, <<>>, ok))
         /\ IF Raises(ok)
            THEN Stop(1, "CalledProcessError") /\ UNCHANGED tmpfile
            ELSE tmpfile' = "removed" /\ Stop(0, "none")
    /\ UNCHANGED <<msgVars, tryVars, args, dependencies, cmdline, pristine, i, cur, cr, rolls,
                   decided, items, j, logs, setdep_args, commit_msg, vals, k,
                   envDir, envHead, envTot, envSub>>

(***************************************************************************)
(* Properties of the run of main().                                        *)
(***************************************************************************)
Mutating == {"git fetch", "git remote set-head", "gclient setdep",
             "git checkout", "git add", "git commit"}

Committed == \E n \in 1..Len(cmds) : cmds[n].c = "git commit" /\ cmds[n].ok

\* C1: when --ignore-dirty-tree is not set and is_pristine reports the tree
\* dirty, the run has failed with a non-zero exit code and no mutating
\* command (fetch, set-head, setdep, checkout, add, commit) was ever issued.
C1_DirtyTreeFailsBeforeMutation ==
    (~args.ignore_dirty_tree /\ pristine = "dirty") =>
        /\ pc = "done"
        /\ exit \notin {-1, 0}
        /\ \A n \in 1..Len(cmds) : cmds[n].c \notin Mutating

\* The staged diff finds the tree dirty after the unstaged diff was empty.
C1_Witness ==
    /\ ~args.ignore_dirty_tree
    /\ pristine = "dirty"
    /\ exit = 1
    /\ Len(cmds) = 3
    /\ cmds[3].c = "git diff --cached"

DirsOf(dependency) ==
    {FullDir(GclientRoot, dependency), FullDir(CurrentDir, dependency)}

\* C2: a dependency whose target equals its current revision ends the run
\* with AlreadyRolledError (exit 2) when it is the only dependency; with
\* several dependencies the run does not fail on it and the dependency is
\* not in the plan: no message section, no setdep argument, no checkout.
C2_AlreadyAtTarget ==
    \A n \in 1..Len(decided) :
        decided[n].head = decided[n].roll_to =>
            IF Len(dependencies) = 1
            THEN pc = "done" /\ exit = 2 /\ err = "AlreadyRolledError"
            ELSE /\ err # "AlreadyRolledError"
                 /\ exit # 2
                 /\ \A m \in 1..Len(rolls) : rolls[m].dep # decided[n].dep
                 /\ \A m \in 1..Len(logs) : logs[m].dep # decided[n].dep
                 /\ \A m \in 1..Len(setdep_args) :
                        setdep_args[m].dep # decided[n].dep
                 /\ \A m \in 1..Len(cmds) :
                        cmds[m].c = "git checkout" =>
                            cmds[m].dir \notin DirsOf(decided[n].dep)

\* Two dependencies, one already at its target: the other one is committed.
C2_Witness ==
    /\ Len(dependencies) > 1
    /\ \E n \in 1..Len(decided) : decided[n].head = decided[n].roll_to
    /\ Len(rolls) = 1
    /\ exit = 0

OnlyDepAtTarget ==
    Len(args.dep_path) = 1 /\ cr.kind = "pair" /\ cr.head = cr.roll_to

RejectedCommandLine ==
    Len(args.dep_path) > 1 /\ (args.roll_to # "origin/HEAD" \/ args.key # <<>>)

\* C3 as stated: exit code 0 exactly when the commit was made, 2 exactly when
\* the only requested dependency was already at the target, 1 for every
\* other failure, rejected command-line arguments included.
C3_ExitCodesAsStated ==
    pc = "done" =>
        /\ exit \in {0, 1, 2}
        /\ (exit = 0 <=> Committed)
        /\ (exit = 2 <=> OnlyDepAtTarget)

\* C3, amended: exit code 0 exactly when the commit was made, 2 exactly when
\* the only requested dependency was already at the target or the command
\* line was rejected by the parser, 1 for every other failure.
C3_ExitCodes ==
    pc = "done" =>
        /\ exit \in {0, 1, 2}
        /\ (exit = 0 <=> Committed)
        /\ (exit = 2 <=> (OnlyDepAtTarget \/ RejectedCommandLine))

\* Several paths with --roll-to: rejected by the parser, exit code 2.
C3_Witness ==
    /\ pc = "done"
    /\ exit = 2
    /\ Len(args.dep_path) > 1
    /\ args.roll_to # "origin/HEAD"
    /\ cmds = <<>>

\* C13 as stated: several dependency paths together with a --roll-to value
\* or a --key value are rejected before any external command is run.
C13_RollToOrKeyRejected ==
    (Len(args.dep_path) > 1 /\ (args.roll_to_given \/ args.key # <<>>)
         /\ pc # "parse") =>
        (pc = "done" /\ err = "usage" /\ cmds = <<>>)

\* C13, amended: several dependency paths together with a --roll-to value
\* other than 'origin/HEAD' or with a --key value are rejected before any
\* external command is run.
C13_MultiplePathsRejected ==
    (Len(args.dep_path) > 1 /\ (args.roll_to # "origin/HEAD" \/ args.key # <<>>)
         /\ pc # "parse") =>
        (pc = "done" /\ err = "usage" /\ exit = 2 /\ cmds = <<>>)

\* Two paths with --key and no --roll-to: rejected, nothing was run.
C13_Witness ==
    /\ pc = "done"
    /\ err = "usage"
    /\ Len(args.dep_path) > 1
    /\ args.key # <<>>
    /\ ~args.roll_to_given
    /\ cmds = <<>>

\* The commands of the last calculate_roll call, by name.
CalcNames == [n \in 1..Len(cr.cmds) |-> cr.cmds[n].c]

CalcIssued(name) == \E n \in 1..Len(cr.cmds) : cr.cmds[n].c = name

\* The commands of a calculate_roll call that runs to its end, in the stated
\* order; 'gclient root' is the layout test before the lookup.
CalcOrder ==
    <<"gclient root", "gclient getdep", "git fetch">>
        \o (IF args.roll_to = "origin/HEAD" THEN <<"git remote set-head">> ELSE <<>>)
        \o <<"git rev-parse">>

\* The lookup of the last calculate_roll call returned an empty revision.
LookupEmpty ==
    /\ Len(cr.cmds) >= 2
    /\ cr.cmds[2].ok
    /\ envHead[cr.cmds[2].dir] = 0

\* C14: calculate_roll runs the current-revision lookup, the unpinned check,
\* git fetch, git remote set-head and git rev-parse in this order; an empty
\* lookup raises the unpinned error with no fetch, set-head or rev-parse;
\* set-head is issued exactly when the target is 'origin/HEAD', before the
\* rev-parse.
C14_CalculateRollOrder ==
    cr.kind # "none" =>
        /\ Len(cr.cmds) <= Len(CalcOrder)
        /\ CalcNames = SubSeq(CalcOrder, 1, Len(cr.cmds))
        /\ \A n \in 1..(Len(cr.cmds) - 1) : cr.cmds[n].ok
        /\ LookupEmpty =>
               /\ cr.kind = "Error"
               /\ pc = "done" /\ err = "Error: unpinned"
               /\ ~CalcIssued("git fetch")
               /\ ~CalcIssued("git remote set-head")
               /\ ~CalcIssued("git rev-parse")
        /\ CalcIssued("git rev-parse") =>
               (CalcIssued("git remote set-head") <=> args.roll_to = "origin/HEAD")

\* A calculation for the target origin/HEAD that ran to the end.
C14_Witness ==
    /\ cr.kind = "pair"
    /\ args.roll_to = "origin/HEAD"
    /\ CalcNames = <<"gclient root", "gclient getdep", "git fetch",
                     "git remote set-head", "git rev-parse">>

\* The stage a command belongs to: 1 check-clean, 2 resolve, 3 synthesize,
\* 4 commit.  The first 'gclient root' finds the root before any stage; the
\* later ones are the layout test of calculate_roll.
StageOf(n) ==
    CASE cmds[n].c \in {"git diff", "git diff --cached"} -> 1
      [] cmds[n].c \in {"gclient getdep", "git fetch", "git remote set-head",
                        "git rev-parse"} -> 2
      [] cmds[n].c \in {"git config", "git log"} -> 3
      [] cmds[n].c \in {"gclient setdep", "git checkout", "git add",
                        "git commit"} -> 4
      [] OTHER -> IF n = 1 THEN 0 ELSE 2

\* The dependencies resolved before command n: one successful rev-parse each.
ResolvedBefore(n) ==
    Cardinality({m \in 1..(n - 1) : cmds[m].c = "git rev-parse" /\ cmds[m].ok})

\* C17: the stages run in the order check-clean, resolve, synthesize, commit;
\* no gclient setdep, git checkout, git add or git commit is issued until
\* every requested dependency has been resolved, so a run that failed while
\* resolving issued none of them.
C17_StagesInOrder ==
    /\ \A n \in 1..(Len(cmds) - 1) : StageOf(n) <= StageOf(n + 1)
    /\ \A n \in 1..Len(cmds) :
           StageOf(n) = 4 =>
               /\ ResolvedBefore(n) = Len(dependencies)
               /\ Len(decided) = Len(dependencies)
               /\ i > Len(dependencies)
    /\ (pc = "done" /\ i <= Len(dependencies)) =>
           \A n \in 1..Len(cmds) : StageOf(n) < 3

\* The second of two dependencies failed to resolve after the first was
\* fetched and resolved: nothing but fetches and lookups was run.
C17_Witness ==
    /\ pc = "done"
    /\ Len(dependencies) = 2
    /\ i = 2
    /\ Len(decided) = 1
    /\ cr.kind = "CalledProcessError"
    /\ \E n \in 1..Len(cmds) : cmds[n].c = "git fetch" /\ cmds[n].ok
    /\ \A n \in 1..Len(cmds) : StageOf(n) < 3

\* C18: a commit is attempted only for a non-empty roll plan: when every
\* requested dependency is already at its target, no gclient setdep, git add
\* or git commit is issued.
C18_NoCommitForEmptyPlan ==
    \A n \in 1..Len(cmds) :
        cmds[n].c \in {"gclient setdep", "git add", "git commit"} =>
            rolls # <<>>

\* C19: the temporary commit-message file is created only after every
\* checkout and 'git add DEPS' have succeeded, and when finalize() has ended
\* the file it created no longer exists, whether 'git commit' succeeded or
\* failed.
C19_TmpFileRemoved ==
    /\ tmpfile # "none" =>
           /\ \E n \in 1..Len(cmds) : cmds[n].c = "git add" /\ cmds[n].ok
           /\ \A n \in 1..Len(cmds) : cmds[n].c = "git checkout" => cmds[n].ok
           /\ Cardinality({n \in 1..Len(cmds) : cmds[n].c = "git checkout"})
                  = Len(vals)
    /\ pc = "done" => tmpfile # "exists"

\* C4: after a failed git checkout neither 'git add DEPS' nor 'git commit'
\* is issued, and a commit is issued only after a successful checkout of
\* every dependency of the plan.
C4_NoCommitAfterFailedCheckout ==
    /\ \A n \in 1..Len(cmds) :
           (cmds[n].c = "git checkout" /\ ~cmds[n].ok) =>
               \A m \in (n + 1)..Len(cmds) :
                   cmds[m].c \notin {"git add", "git commit"}
    /\ \A n \in 1..Len(cmds) :
           cmds[n].c \in {"git add", "git commit"} =>
               \A r \in 1..Len(rolls) :
                   \E m \in 1..(n - 1) :
                       /\ cmds[m].c = "git checkout"
                       /\ cmds[m].ok
                       /\ cmds[m].dir = rolls[r].full_dir
                       /\ cmds[m].rev = rolls[r].roll_to

\* The second checkout of a two-dependency plan fails.
C4_Witness ==
    /\ pc = "done"
    /\ exit = 1
    /\ Len(rolls) = 2
    /\ \E n \in 2..Len(cmds) :
           /\ cmds[n].c = "git checkout" /\ ~cmds[n].ok
           /\ cmds[n - 1].c = "git checkout" /\ cmds[n - 1].ok

\* The dependency of the plan that lives in directory dir.
DepOfDir(dir) ==
    LET r == CHOOSE r \in 1..Len(rolls) : rolls[r].full_dir = dir
    IN  rolls[r].dep

\* C5: the git checkout commands are issued in ascending order of
\* dependency path.
C5_CheckoutsInPathOrder ==
    \A n \in 1..Len(cmds) : \A m \in (n + 1)..Len(cmds) :
        (cmds[n].c = "git checkout" /\ cmds[m].c = "git checkout") =>
            LexLess(DepOfDir(cmds[n].dir), DepOfDir(cmds[m].dir))

\* C8: in both layouts calculate_roll gives its caller a revision pair or
\* the Error of an unpinned dependency (an external command failing apart).
C8_BothLayouts ==
    (cr.kind # "none" /\ \A n \in 1..Len(cr.cmds) : cr.cmds[n].ok) =>
        cr.kind \in {"pair", "Error"}

IsAscending(s) ==
    \A n \in 1..Len(s) : \A m \in (n + 1)..Len(s) : ~LexLess(s[m], s[n])

IsStrictlyAscending(s) ==
    \A n \in 1..Len(s) : \A m \in (n + 1)..Len(s) : LexLess(s[n], s[m])

Count(s, x) == Cardinality({n \in 1..Len(s) : s[n] = x})

DepsOf(s) == [n \in 1..Len(s) |-> s[n].dep]

\* C9: the paths of the 'Created with' command line are the normalized
\* dep_path arguments in ascending order (so the same for every order of
\* the arguments); the message sections and the setdep arguments are the
\* dependencies of the plan in ascending order of path.
C9_PathOrder ==
    /\ (Len(cmds) >= 1 /\ cmds[1].ok) =>
           /\ IsAscending(cmdline.paths)
           /\ Len(cmdline.paths) = Len(args.dep_path)
           /\ \A d \in AllDeps :
                  Count(cmdline.paths, d) =
                      Cardinality({n \in 1..Len(args.dep_path) :
                                       NormalizeDep(args.dep_path[n]) = d})
    /\ IsStrictlyAscending(DepsOf(logs))
    /\ DepsOf(setdep_args) = DepsOf(logs)
    /\ pc \in {"setdep", "checkout", "add", "tmp", "commit"} =>
           {logs[n].dep : n \in 1..Len(logs)} =
               {rolls[n].dep : n \in 1..Len(rolls)}
    /\ \A n \in 1..Len(cmds) :
           cmds[n].c = "gclient setdep" =>
               /\ IsStrictlyAscending(DepsOf(cmds[n].args))
               /\ {cmds[n].args[m].dep : m \in 1..Len(cmds[n].args)} =
                      {rolls[m].dep : m \in 1..Len(rolls)}

\* Two dependencies given in descending order are rolled in one commit.
C9_Witness ==
    /\ exit = 0
    /\ Len(logs) = 2
    /\ Len(args.dep_path) = 2
    /\ LexLess(NormalizeDep(args.dep_path[2]), NormalizeDep(args.dep_path[1]))

(***************************************************************************)
(* The message functions as steps.                                         *)
(***************************************************************************)
DepName == <<Tok("dep")>>

GenerateMessage ==
    /\ m_pc = "generate"
    /\ m_log' = GenerateCommitMessage(DepName, OldRev, NewRev, m_in.no_log,
                                      m_in.log_limit, m_in.upstream_url,
                                      m_in.lines)
    /\ m_pc' = "compose"
    /\ UNCHANGED <<m_in, m_tr, m_final>>
    /\ UNCHANGED <<mainVars, tryVars>>

ReviewerLists ==
    {None, Some(<<>>), Some(<<<<Tok("joe@chromium.org")>>>>),
     Some(<<<<Tok("joe@chromium.org")>>, <<Tok("jane@example.com")>>>>)}

Bugs == {None, Some(<<>>), Some(<<Tok("123")>>)}

ComposeMessage ==
    /\ m_pc = "compose"
    /\ \E nlogs \in 0..2, reviewers \in ReviewerLists, bug \in Bugs :
         /\ m_tr' = [nlogs |-> nlogs, reviewers |-> reviewers, bug |-> bug,
                    raw |-> None]
         /\ m_final' = GenCommitMsg([n \in 1..nlogs |-> m_log],
                                    <<Tok("roll-dep "), Tok("dep")>>,
                                    reviewers, bug)
    /\ m_pc' = "composed"
    /\ UNCHANGED <<m_in, m_log>>
    /\ UNCHANGED <<mainVars, tryVars>>

(***************************************************************************)
(* Properties of the message functions.                                    *)
(***************************************************************************)
Has(msg, tok) == \E n \in 1..Len(msg) : msg[n] = tok

IndexOf(msg, tok) == CHOOSE n \in 1..Len(msg) : msg[n] = tok

Occurrences(msg, tok) == Cardinality({n \in 1..Len(msg) : msg[n] = tok})

FormatArg == Tok("--format='%ad %ae %s'")

HasCommandLine(msg) == Has(msg, Tok("$ ")) /\ Has(msg, FormatArg)

HasLogUrl(msg) == Has(msg, Tok("/+log/")) \/ Has(msg, Tok("/compare/"))

\* What follows the line of the git-log command.
BodyOf(msg) == SubSeq(msg, IndexOf(msg, FormatArg) + 2, Len(msg))

\* The entries of a log body: its lines without their line ends.
EntriesOf(body) == SelectSeq(body, LAMBDA t : t # NL)

\* The upstream URLs that end with '/v8/v8.git' or contain 'webrtc'.
NoisyUrls == {UrlV8, UrlWebrtc, UrlGithubWebrtc}

\* The upstream URLs on *.googlesource.com or github.com.
BrowsableUrls ==
    {UrlV8, UrlSrc, UrlWebrtc, UrlGithub, UrlGithubSlashes, UrlGithubWebrtc}

Suppressed == m_in.no_log \/ m_in.upstream_url \in NoisyUrls

Generated == m_pc \in {"compose", "composed"}

FilteredLines == SelectSeq(m_in.lines, LAMBDA l : l.t = "line")

\* C6: when the log body is shown and the number n of filtered lines
\* exceeds the cap c >= 0, the body is the first c \div 2 filtered lines,
\* one '(...)' marker and the last c - c \div 2 filtered lines; when
\* n <= c it is all n lines and no marker.
C6_TrimKeepsExactlyCap ==
    (Generated /\ ~Suppressed) =>
        LET n == Len(FilteredLines)
            c == m_in.log_limit
            body == EntriesOf(BodyOf(m_log))
        IN  IF n > c
            THEN body = SubSeq(FilteredLines, 1, c \div 2) \o <<Tok("(...)")>>
                            \o SubSeq(FilteredLines, n - (c - c \div 2) + 1, n)
            ELSE body = FilteredLines

\* C7 as stated: when --no-log is set or the upstream is a noisy project the
\* message is the header alone, without the browsable URL, the git-log
\* command line and the log body; otherwise the log section is appended.
C7_HeaderAloneWhenSuppressed ==
    Generated =>
        IF Suppressed
        THEN /\ ~HasLogUrl(m_log)
             /\ ~HasCommandLine(m_log)
             /\ EndsWith(m_log, <<Tok(")"), NL, NL>>)
        ELSE HasCommandLine(m_log) /\ BodyOf(m_log) # <<>>

\* C7, amended: the log body is appended exactly when --no-log is not set
\* and the upstream is not a noisy project; the git-log command line is
\* appended in every case, and the browsable URL whenever there is one,
\* both after the header and before the body.
C7_LogBodySuppression ==
    Generated =>
        /\ HasCommandLine(m_log)
        /\ (BodyOf(m_log) # <<>>) <=> ~Suppressed
        /\ HasLogUrl(m_log) <=> (m_in.upstream_url \in BrowsableUrls)
        /\ IndexOf(m_log, Tok(")")) < IndexOf(m_log, Tok("$ "))
        /\ HasLogUrl(m_log) =>
               /\ IndexOf(m_log, Tok(")")) < IndexOf(m_log, Tok("https://"))
               /\ IndexOf(m_log, Tok("https://")) < IndexOf(m_log, Tok("$ "))

\* A noisy upstream without --no-log: URL and command line, no body.
C7_Witness ==
    /\ Generated
    /\ ~m_in.no_log
    /\ m_in.upstream_url = UrlV8
    /\ FilteredLines # <<>>
    /\ HasLogUrl(m_log)
    /\ HasCommandLine(m_log)
    /\ BodyOf(m_log) = <<>>

\* C10: the commit message has an 'R=' trailer exactly when a non-empty
\* reviewer list was given and a 'Bug:' trailer exactly when a non-empty
\* bug was given; both follow the 'Created with:' footer, 'R=' first.
C10_Trailers ==
    m_pc = "composed" =>
        /\ Has(m_final, Tok("R=")) <=>
               (m_tr.reviewers.some /\ Len(m_tr.reviewers.v) > 0)
        /\ Has(m_final, Tok("Bug: ")) <=> (m_tr.bug.some /\ Len(m_tr.bug.v) > 0)
        /\ Occurrences(m_final, Tok("R=")) <= 1
        /\ Occurrences(m_final, Tok("Bug: ")) <= 1
        /\ Occurrences(m_final, Tok("Created with:")) = 1
        /\ Has(m_final, Tok("R=")) =>
               IndexOf(m_final, Tok("Created with:")) < IndexOf(m_final, Tok("R="))
        /\ Has(m_final, Tok("Bug: ")) =>
               IndexOf(m_final, Tok("Created with:")) < IndexOf(m_final, Tok("Bug: "))
        /\ (Has(m_final, Tok("R=")) /\ Has(m_final, Tok("Bug: "))) =>
               IndexOf(m_final, Tok("R=")) < IndexOf(m_final, Tok("Bug: "))

\* Two reviewers and a bug after two dependency sections.
C10_Witness ==
    /\ m_pc = "composed"
    /\ m_tr.nlogs = 2
    /\ Has(m_final, Tok("R="))
    /\ Has(m_final, Tok("Bug: "))
    /\ Len(m_tr.reviewers.v) = 2

\* The first line of the generated message, without its newline.
HeaderLine == SubSeq(m_log, 1, IndexOf(m_log, NL) - 1)

\* C12: the header is 'Roll <dep>/ <old[:9]>..<new[:9]> (<n> commit...)' with
\* n the number of log lines before the trivial-roll filter and k the number
\* of lines the filter dropped: 'commit' for n = 1, 'commits' for n > 1, and
\* '; <k> trivial rolls' exactly when k > 0.
C12_Header ==
    Generated =>
        LET n == Len(m_in.lines)
            dropped == n - Len(FilteredLines)
            h == HeaderLine
            short == [p \in 1..9 |-> OldRev[p]] \o <<Tok("..")>>
                         \o [p \in 1..9 |-> NewRev[p]]
            start == <<Tok("Roll ")>> \o DepName \o <<Tok("/ ")>> \o short
                         \o <<Tok(" ("), Num(n), Tok(" commit")>>
            rest == SubSeq(h, Len(start) + 1, Len(h))
            clause == <<Tok("; "), Num(dropped), Tok(" trivial rolls")>>
        IN  /\ Has(m_log, NL)
            /\ SubSeq(h, 1, Len(start)) = start
            /\ n = 1 => (rest = <<>> \/ rest[1] # Tok("s"))
            /\ n > 1 => (rest # <<>> /\ rest[1] = Tok("s"))
            /\ dropped > 0 => rest \in { clause \o <<Tok(")")>>,
                                   <<Tok("s")>> \o clause \o <<Tok(")")>> }
            /\ dropped = 0 => rest \in { <<Tok(")")>>, <<Tok("s"), Tok(")")>> }

\* Three log lines of which one is a trivial roll: '(3 commits; 1 trivial rolls)'.
C12_Witness ==
    /\ Generated
    /\ Len(m_in.lines) = 3
    /\ Len(FilteredLines) = 2
    /\ SubSeq(HeaderLine, Len(HeaderLine) - 6, Len(HeaderLine)) =
           <<Num(3), Tok(" commit"), Tok("s"), Tok("; "), Num(1),
             Tok(" trivial rolls"), Tok(")")>>

\* What the message has between the header and the git-log command line.
UrlLines ==
    SubSeq(m_log, IndexOf(m_log, NL) + 2, IndexOf(m_log, Tok("$ ")) - 1)

OnGithub(u) ==
    Len(u) >= 3 /\ SubSeq(u, 1, 3) = <<Tok("https://"), Tok("github.com"), Tok("/")>>

OnGooglesource(u) ==
    Len(u) >= 4 /\ u[1] = Tok("https://") /\ u[2] # Tok("/")
        /\ u[3] = Tok(".googlesource.com") /\ u[4] = Tok("/")

Old12 == [p \in 1..12 |-> OldRev[p]]
New12 == [p \in 1..12 |-> NewRev[p]]

\* C15: for a github URL the trailing '/' characters and then a trailing
\* '.git' are removed before '/compare/<old[:12]>...<new[:12]>'; for a
\* googlesource URL the result is '<url>/+log/<old[:12]>..<new[:12]>'; for
\* any other URL there is no log URL and the message is still generated.
C15_LogUrl ==
    Generated =>
        LET u == m_in.upstream_url
            l == UrlLines
        IN  /\ HasCommandLine(m_log)
            /\ OnGooglesource(u) =>
                   l = u \o <<Tok("/+log/")>> \o Old12 \o <<Tok("..")>> \o New12
                         \o <<NL, NL>>
            /\ (~OnGooglesource(u) /\ OnGithub(u)) =>
                   /\ Has(l, Tok("/compare/"))
                   /\ LET cut == IndexOf(l, Tok("/compare/"))
                          base == SubSeq(l, 1, cut - 1)
                          removed == SubSeq(u, cut, Len(u))
                      IN  /\ base = SubSeq(u, 1, cut - 1)
                          /\ base[Len(base)] # Tok("/")
                          /\ \A n \in 2..Len(removed) : removed[n] = Tok("/")
                          /\ removed # <<>> => removed[1] \in {Tok("/"), Tok(".git")}
                          /\ (removed = <<>> \/ removed[1] # Tok(".git")) =>
                                 base[Len(base)] # Tok(".git")
                          /\ SubSeq(l, cut, Len(l)) =
                                 <<Tok("/compare/")>> \o Old12 \o <<Tok("...")>>
                                     \o New12 \o <<NL, NL>>
            /\ (~OnGooglesource(u) /\ ~OnGithub(u)) =>
                   (l = <<>> /\ ~HasLogUrl(m_log))

\* 'https://github.com/foo/bar.git/' gives 'https://github.com/foo/bar/compare/...'.
C15_Witness ==
    /\ Generated
    /\ m_in.upstream_url = UrlGithub
    /\ SubSeq(UrlLines, 1, 7) =
           <<Tok("https://"), Tok("github.com"), Tok("/"), Tok("foo"), Tok("/"),
             Tok("bar"), Tok("/compare/")>>

(***************************************************************************)
(* The reviewer arguments of main() as steps.                              *)
(***************************************************************************)
InitReviewerArgs ==
    /\ m_pc = "args"
    /\ m_in = NoInput
    /\ m_log = <<>>
    /\ m_tr \in [nlogs : {0}, reviewers : {None}, bug : {None}, raw : ReviewerArgs]
    /\ m_final = <<>>

\* main(), lines 263-268
ParseReviewerArgs ==
    /\ m_pc = "args"
    /\ m_tr' = [m_tr EXCEPT !.reviewers = ParseReviewers(m_tr.raw)]
    /\ m_pc' = "parsed"
    /\ UNCHANGED <<m_in, m_log, m_final>>
    /\ UNCHANGED <<mainVars, tryVars>>

\* main(), line 312: gen_commit_msg(logs, cmdline, reviewers, args.bug)
ComposeFromArgs ==
    /\ m_pc = "parsed"
    /\ \E nlogs \in 1..2, bug \in Bugs :
         /\ m_tr' = [m_tr EXCEPT !.nlogs = nlogs, !.bug = bug]
         /\ m_final' = GenCommitMsg([n \in 1..nlogs |-> <<Tok("Roll "), NL>>],
                                    <<Tok("roll-dep "), Tok("dep")>>,
                                    m_tr.reviewers, bug)
    /\ m_pc' = "composed"
    /\ UNCHANGED <<m_in, m_log>>
    /\ UNCHANGED <<mainVars, tryVars>>

\* An entry of the reviewer list without the default domain main() gave it.
WithoutDefaultDomain(r) ==
    IF r # <<>> /\ r[Len(r)] = Tok("@chromium.org")
    THEN SubSeq(r, 1, Len(r) - 1)
    ELSE r

\* The entries joined by ','.
CommaJoined(l) == Join(<<Tok(",")>>, l)

\* C11: the reviewer list is the concatenation, in order, of the comma-split
\* -r values; an entry without '@' has '@chromium.org' appended, an entry
\* with '@' is unchanged; the trailer is 'R=' and the entries joined by ','.
C11_Reviewers ==
    (m_pc \in {"parsed", "composed"} /\ m_tr.raw.some) =>
        LET l == m_tr.reviewers.v IN
        /\ m_tr.reviewers.some
        /\ \A n \in 1..Len(l) :
               /\ ~Has(l[n], Tok(","))
               /\ IF Has(l[n], Tok("@"))
                  THEN ~Has(l[n], Tok("@chromium.org"))
                  ELSE /\ l[n] # <<>>
                       /\ l[n][Len(l[n])] = Tok("@chromium.org")
                       /\ Occurrences(l[n], Tok("@chromium.org")) = 1
        /\ CommaJoined([n \in 1..Len(l) |-> WithoutDefaultDomain(l[n])])
               = CommaJoined(m_tr.raw.v)
        /\ m_pc = "composed" =>
               /\ Occurrences(m_final, Tok("R=")) = 1
               /\ LET at == IndexOf(m_final, Tok("R="))
                      joined == CommaJoined(l)
                  IN  /\ SubSeq(m_final, at + 1, at + Len(joined)) = joined
                      /\ at + Len(joined) + 1 <= Len(m_final)
                      /\ m_final[at + Len(joined) + 1] = NL

\* -r joe -r jane@example.com gives R=joe@chromium.org,jane@example.com.
C11_Witness ==
    /\ m_pc = "composed"
    /\ m_tr.raw = Some(<<<<Tok("joe")>>,
                         <<Tok("jane"), Tok("@"), Tok("example.com")>>>>)
    /\ LET at == IndexOf(m_final, Tok("R="))
       IN  SubSeq(m_final, at, at + 7) =
               <<Tok("R="), Tok("joe"), Tok("@chromium.org"), Tok(","),
                 Tok("jane"), Tok("@"), Tok("example.com"), NL>>

(***************************************************************************)
(* TryserverApi as steps.                                                  *)
(***************************************************************************)
\* TryserverApi.initialize
Initialize ==
    /\ t_pc = "new"
    /\ t_pc' = "ready"
    /\ t_gerrit_change' = IF Len(t_changes) = 1 THEN Some(t_changes[1])
                          ELSE t_gerrit_change
    /\ UNCHANGED <<t_changes, t_gerrit_change_info, t_steps, t_reads>>
    /\ UNCHANGED <<mainVars, msgVars>>

Read(cl, step, result, v) == [cl |-> cl, step |-> step, result |-> result, v |-> v]

\* One read of the property gerrit_change_info.  A failed step raises out of
\* get_changes and an empty list raises IndexError at [0]: in both cases the
\* assignment to self._gerrit_change_info is not reached.
ReadGerritChangeInfo ==
    /\ t_pc \in {"new", "ready"}
    /\ Len(t_reads) < MaxReads
    /\ LET cl == t_gerrit_change IN
       IF NeedsFetch(cl, t_gerrit_change_info)
       THEN /\ t_steps' = Append(t_steps, "fetch current CL info")
            /\ \E o \in FetchOutcomes :
                 IF o.kind = "ok"
                 THEN /\ t_gerrit_change_info' = Some(o.v)
                      /\ t_reads' = Append(t_reads, Read(TRUE, TRUE, "value", o.v))
                 ELSE /\ t_gerrit_change_info' = t_gerrit_change_info
                      /\ t_reads' = Append(t_reads,
                             Read(TRUE, TRUE,
                                  IF o.kind = "empty" THEN "IndexError"
                                  ELSE "InfraFailure", 0))
       ELSE /\ t_reads' = Append(t_reads,
                   IF t_gerrit_change_info.some
                   THEN Read(cl.some, FALSE, "value", t_gerrit_change_info.v)
                   ELSE Read(cl.some, FALSE, "None", 0))
            /\ UNCHANGED <<t_gerrit_change_info, t_steps>>
    /\ UNCHANGED <<t_pc, t_changes, t_gerrit_change>>
    /\ UNCHANGED <<mainVars, msgVars>>

\* The reads that issued the step.
FetchingReads == {n \in 1..Len(t_reads) : t_reads[n].step}

MainIdle ==
    /\ args = [dep_path |-> <<>>, ignore_dirty_tree |-> FALSE,
               roll_to |-> DefaultRollTo, roll_to_given |-> FALSE,
               key |-> <<>>]
    /\ pc = "idle"
    /\ exit = -1
    /\ err = "none"
    /\ cmds = <<>>
    /\ dependencies = <<>>
    /\ cmdline = [paths |-> <<>>, keys |-> <<>>]
    /\ pristine = "unknown"
    /\ i = 1
    /\ cur = [dep |-> <<>>, full_dir |-> <<>>]
    /\ cr = NoResult
    /\ rolls = <<>>
    /\ decided = <<>>
    /\ items = <<>>
    /\ j = 1
    /\ logs = <<>>
    /\ setdep_args = <<>>
    /\ commit_msg = [logs |-> <<>>, cmdline |-> [paths |-> <<>>, keys |-> <<>>]]
    /\ vals = <<>>
    /\ k = 1
    /\ tmpfile = "none"
    /\ envDir = [d \in AllDeps |-> "?"]
    /\ envHead = [d \in AllDeps |-> -1]
    /\ envTot = [d \in AllDeps |-> -1]
    /\ envSub = "?"

Init == InitMain /\ MsgIdle /\ TryIdle

InitMessages == MainIdle /\ InitMsg /\ TryIdle

NextMessages ==
    \/ GenerateMessage
    \/ ComposeMessage

\* The message functions on their own.
SpecMsg == InitMessages /\ [][NextMessages]_vars

InitReviewers == MainIdle /\ InitReviewerArgs /\ TryIdle

NextReviewers ==
    \/ ParseReviewerArgs
    \/ ComposeFromArgs

\* The reviewer arguments on their own.
SpecReviewers == InitReviewers /\ [][NextReviewers]_vars

InitTryserver == MainIdle /\ MsgIdle /\ InitTry

NextTryserver ==
    \/ Initialize
    \/ ReadGerritChangeInfo

\* TryserverApi on its own.
SpecTryserver == InitTryserver /\ [][NextTryserver]_vars

Next ==
    \/ ParseArgs
    \/ GclientRootStep
    \/ CheckClean
    \/ FindDir
    \/ CalculateRoll
    \/ RecordRoll
    \/ EndResolve
    \/ Synthesize
    \/ EndSynth
    \/ SetDep
    \/ Checkout
    \/ EndCheckout
    \/ GitAdd
    \/ WriteTmp
    \/ Commit

Spec == Init /\ [][Next]_vars

====
